---------------------------- MODULE Spec2Model ----------------------------
(***************************************************************************)
(* Model of rust/src/main.rs: a sequential script that drives a Bitcoin    *)
(* regtest node over RPC.  The program's variables keep their source       *)
(* names.  The node is the environment: its wallet registry, chain, wallet *)
(* funds and mempool are state variables, and every RPC is one action that *)
(* takes the node's answer (or an error answer) and runs the code up to    *)
(* the next RPC.                                                           *)
(*                                                                         *)
(* Strings the program treats as opaque (txids, addresses, block hashes)   *)
(* are pairs <<tag, n>>; the empty string "" is <<>>.  An optional JSON    *)
(* field is <<>> (absent) or <<v>> (present).  Amounts are exact numbers   *)
(* of satoshis held as [btc, sat] (value btc * COIN + sat), because       *)
(* TLC's integers are 32 bits wide and 50 BTC is 5 * 10^9 satoshis.        *)
(***************************************************************************)
EXTENDS Integers, Sequences, FiniteSets, TLC

VARIABLES
    \* ---- the node (environment) ----
    disk,                 \* wallet names that exist in the node's wallet directory
    loaded,               \* the node's loaded wallets, in load order (listwallets)
    height,               \* height of the chain tip
    prior,                \* funds the Miner wallet held before the run: sequence of outputs
    paytx,                \* <<>>, or <<tx>>: the payment transaction the node built
    payHeight,            \* 0 while paytx is unconfirmed, else the height of its block
    file,                 \* content of ../out.txt: <<>> (absent) or <<lines>>; after a
                          \* failed write the last entry may be a fragment of a line
    \* ---- the program ----
    pc,                   \* position in main
    ppc,                  \* position in create_or_load_wallet
    wallet_name,          \* argument of create_or_load_wallet
    miner_address,
    blocks_mined,
    miner_balance,
    block_hashes,         \* result of the loop's last mine_blocks_to_address
    trader_address,
    txid,
    confirm_block_hashes,
    tx_details,
    block_info,
    prev_tx_details,
    \* ---- history (observation only) ----
    rpcs,                 \* number of RPC calls issued so far
    errLog,               \* error answers so far: sequence of <<call site, index of the call>>
    stages,               \* pipeline stages completed so far, in order
    attempts,             \* RPCs of the current create_or_load_wallet call: <<site, ok>>
    presults,             \* results of the finished create_or_load_wallet calls, in order
    regAfter,             \* registry <<disk, loaded>> after each finished call, in order
    height0,              \* chain height before the run
    file0                 \* content of ../out.txt before the run

nodeVars == <<disk, loaded, height, prior, paytx, payHeight, file>>
provVars == <<ppc, wallet_name>>
mainVars == <<pc, miner_address, blocks_mined, miner_balance, block_hashes,
              trader_address, txid, confirm_block_hashes, tx_details, block_info,
              prev_tx_details>>
histVars == <<rpcs, errLog, stages, attempts, presults, regAfter, height0, file0>>
vars == <<nodeVars, provVars, mainVars, histVars>>

-----------------------------------------------------------------------------
(* Bounds of the model *)

\* the mining loop is cut off after this many blocks (the code has no cap)
MaxBlocks == 6
\* coinbase maturity of the node: confirmations a block reward needs before it
\* is spendable (100 on a real node; the program never reads the number)
Maturity == 3
\* sub-satoshi resolution of the floating-point error model: units per satoshi
SubSat == 1000
\* largest error one f64 subtraction carries (its own rounding and the
\* representation errors of its operands), in units in the last place of the
\* larger operand
MaxErr == 2
\* largest chain height the node may start from
MaxHeight0 == 2

(* Constants of the program and of the node *)

\* satoshis per BTC: the factor of the rounding in main
COIN == 100000000
\* whole BTC sent to the Trader
SendBtc == 20
\* block reward in whole BTC
RewardBtc == 50
\* f64: 2^53 (the 53-bit significand) over 100_000_000, rounded down
F64Scale == 90071992

-----------------------------------------------------------------------------
(* Amounts: bitcoin::Amount, an exact number of satoshis *)

Amt(b, s) == [btc |-> b + (s \div COIN), sat |-> s % COIN]
AmtZero == Amt(0, 0)
AmtAdd(x, y) == Amt(x.btc + y.btc, x.sat + y.sat)
AmtSub(x, y) == Amt(x.btc - y.btc, x.sat - y.sat)
AmtNeg(x) == x.btc < 0
AmtPos(x) == x.btc > 0 \/ (x.btc = 0 /\ x.sat > 0)

(* f64 values holding BTC amounts.  [amt, err, negz] stands for the double  *)
(* whose value is amt satoshis plus err/SubSat of a satoshi; err = 0 is the *)
(* double nearest to the decimal amt / 10^8, which is what parsing a JSON   *)
(* number or Amount::to_btc yields and what Display prints back as that     *)
(* decimal.  negz marks the negative zero -0.0, which Display prints "-0".  *)
F64(a) == [amt |-> a, err |-> 0, negz |-> FALSE]
IsPlusZero(x) == x.amt = AmtZero /\ x.err = 0 /\ ~x.negz

\* the smallest power of two above n, from p up
RECURSIVE Pow2Above(_, _)
Pow2Above(n, p) == IF p > n THEN p ELSE Pow2Above(n, 2 * p)
\* whole BTC bounding the magnitude of x
Magnitude(x) == IF x.amt.btc < 0 THEN 0 - x.amt.btc ELSE x.amt.btc + 1
\* a bound on the unit in the last place of a double of magnitude m BTC, in
\* 1/SubSat satoshi: it grows with m (0.37 satoshi from 2^24 BTC on)
UlpUnits(m) == (Pow2Above(m, 1) \div (F64Scale \div SubSat)) + 1
Larger(m, n) == IF m >= n THEN m ELSE n

\* The errors x - y may carry, in 1/SubSat satoshi: none when y is 0.0 or
\* when x and y are the same double, else up to MaxErr units in the last
\* place of the larger operand.
ErrRange(x, y) ==
    IF IsPlusZero(y) \/ (x.amt = y.amt /\ x.err = y.err) THEN {0}
    ELSE LET u == MaxErr * UlpUnits(Larger(Magnitude(x), Magnitude(y)))
         IN  (0 - u) .. u

\* x - y in f64: the exact difference, off by e, which stands for the rounding
\* error of the subtraction and the representation errors of its operands;
\* -0.0 only as (-0.0) - (+0.0)
F64Sub(x, y, e) ==
    [amt |-> AmtSub(x.amt, y.amt), err |-> x.err - y.err + e,
     negz |-> x.negz /\ x.amt = AmtZero /\ x.err = 0 /\ IsPlusZero(y)]

\* x <= 0.0
F64LeZero(x) == AmtNeg(x.amt) \/ (x.amt = AmtZero /\ x.err <= 0)

\* (x * 100_000_000.0).round() / 100_000_000.0: f64::round rounds to the
\* nearest integer, half away from zero; the quotient is the double nearest
\* to that number of satoshis over 10^8.  A negative x that rounds to zero
\* gives -0.0.
\* (a faulty variant: the fee left unrounded)
Round8Wrong(x) == x
Round8(x) ==
    LET k == x.err \div SubSat
        r == x.err % SubSat
        base == Amt(x.amt.btc, x.amt.sat + k)
        up == \/ 2 * r > SubSat
              \/ (2 * r = SubSat /\ ~AmtNeg(base))
        r8 == IF up THEN AmtAdd(base, Amt(0, 1)) ELSE base
    IN  [amt |-> r8, err |-> 0,
         negz |-> r8 = AmtZero /\ (AmtNeg(base) \/ (x.negz /\ x.err = 0))]

-----------------------------------------------------------------------------
(* JSON access as serde_json does it *)

\* Option::unwrap_or
UnwrapOr(opt, d) == IF opt = <<>> THEN d ELSE opt[1]
\* value[i] on an array, i counted from 0: Null when out of range
Index(arr, i) == IF i + 1 <= Len(arr) THEN <<arr[i + 1]>> ELSE <<>>
\* value["vout"][i]["scriptPubKey"]["address"].as_str()
VoutAddress(tx, i) ==
    IF tx = <<>> \/ Index(tx[1].vout, i) = <<>> THEN <<>>
    ELSE Index(tx[1].vout, i)[1].address
\* value["vout"][i]["value"].as_f64()
VoutValue(tx, i) ==
    IF tx = <<>> \/ Index(tx[1].vout, i) = <<>> THEN <<>>
    ELSE <<F64(Index(tx[1].vout, i)[1].value)>>

EmptyStr == <<>>
Names == {"Miner", "Trader"}

-----------------------------------------------------------------------------
(* The node's wallet registry: unloadwallet, loadwallet, createwallet *)

IsLoaded(w) == \E i \in 1..Len(loaded) : loaded[i] = w
Without(seq, w) == SelectSeq(seq, LAMBDA x : x # w)

\* the node can answer the call with success in its present state
CanUnload(w) == IsLoaded(w)
CanLoad(w) == w \in disk /\ ~IsLoaded(w)
CanCreate(w) == w \notin disk

\* An RPC is answered with success only when the node's state allows it, and
\* may always be answered with an error.  reason tells a refusal that follows
\* from the node's state ("state") from any other failure ("fault").
Answers(can) == IF can THEN {TRUE, FALSE} ELSE {FALSE}
Reason(can) == IF can THEN "fault" ELSE "state"

\* bookkeeping of one RPC call issued at `site` and answered ok or not
Logged(site, ok, can) ==
    /\ rpcs' = rpcs + 1
    /\ errLog' = IF ok THEN errLog
                 ELSE Append(errLog, <<site, rpcs + 1, Reason(can)>>)

-----------------------------------------------------------------------------
(* create_or_load_wallet *)

\* where the function starts: with the unload
\* (a faulty variant: no unload before the load)
ProvEntryNoUnload == "load"
ProvEntry == "unload"

\* match rpc.load_wallet(wallet_name): Ok => return Ok, Err => create
AfterLoad(ok) == IF ok THEN "ok" ELSE "create"

\* match rpc.create_wallet(..): Ok => return Ok, Err => load again
\* (a faulty variant: the error of the create returned at once)
AfterCreateNoRetry(ok) == IF ok THEN "ok" ELSE "err"
AfterCreate(ok) == IF ok THEN "ok" ELSE "reload"

\* rpc.load_wallet(wallet_name)?; Ok(())
AfterReload(ok) == IF ok THEN "ok" ELSE "err"

\* let _ = rpc.unload_wallet(Some(wallet_name));
Unload ==
    /\ ppc = "unload"
    /\ \E ok \in Answers(CanUnload(wallet_name)) :
        /\ Logged("unload", ok, CanUnload(wallet_name))
        /\ attempts' = Append(attempts, <<"unload", ok>>)
        /\ loaded' = IF ok THEN Without(loaded, wallet_name) ELSE loaded
    /\ ppc' = "load"
    /\ UNCHANGED <<disk, height, prior, paytx, payHeight, file, wallet_name,
                   mainVars, stages, presults, regAfter, height0, file0>>

\* match rpc.load_wallet(wallet_name)
Load ==
    /\ ppc = "load"
    /\ \E ok \in Answers(CanLoad(wallet_name)) :
        /\ Logged("load", ok, CanLoad(wallet_name))
        /\ attempts' = Append(attempts, <<"load", ok>>)
        /\ loaded' = IF ok THEN Append(loaded, wallet_name) ELSE loaded
        /\ ppc' = AfterLoad(ok)
    /\ UNCHANGED <<disk, height, prior, paytx, payHeight, file, wallet_name,
                   mainVars, stages, presults, regAfter, height0, file0>>

\* match rpc.create_wallet(wallet_name, None, None, None, None)
Create ==
    /\ ppc = "create"
    /\ \E ok \in Answers(CanCreate(wallet_name)) :
        /\ Logged("create", ok, CanCreate(wallet_name))
        /\ attempts' = Append(attempts, <<"create", ok>>)
        /\ disk' = IF ok THEN disk \cup {wallet_name} ELSE disk
        /\ loaded' = IF ok THEN Append(loaded, wallet_name) ELSE loaded
        /\ ppc' = AfterCreate(ok)
    /\ UNCHANGED <<height, prior, paytx, payHeight, file, wallet_name,
                   mainVars, stages, presults, regAfter, height0, file0>>

\* rpc.load_wallet(wallet_name)?  after the failed create
LoadAgain ==
    /\ ppc = "reload"
    /\ \E ok \in Answers(CanLoad(wallet_name)) :
        /\ Logged("reload", ok, CanLoad(wallet_name))
        /\ attempts' = Append(attempts, <<"reload", ok>>)
        /\ loaded' = IF ok THEN Append(loaded, wallet_name) ELSE loaded
        /\ ppc' = AfterReload(ok)
    /\ UNCHANGED <<disk, height, prior, paytx, payHeight, file, wallet_name,
                   mainVars, stages, presults, regAfter, height0, file0>>

Provisioner == Unload \/ Load \/ Create \/ LoadAgain

-----------------------------------------------------------------------------
(* Initial states of the node *)

\* registries: every wallet absent, present and unloaded, or loaded
Registries ==
    {<<d, l>> \in (SUBSET Names) \X
         {<<>>, <<"Miner">>, <<"Trader">>, <<"Miner", "Trader">>, <<"Trader", "Miner">>} :
         \A i \in 1..Len(l) : l[i] \in d}

\* "../out.txt" before the run: absent, or left by an earlier run
OldFiles == {<<>>, <<<< <<"old", 0>>, <<"old", 1>> >>>>}

-----------------------------------------------------------------------------
(* The node's chain, wallets and mempool *)

MinerRewardAddr == <<"addr-miner-reward", 0>>
MinerChangeAddr == <<"addr-miner-change", 0>>
MinerOldAddr == <<"addr-miner-old", 0>>
TraderAddr == <<"addr-trader", 0>>
OtherAddr == <<"addr-other", 0>>
PayTxid == <<"txid-pay", 0>>
PriorTxid == <<"txid-prior", 0>>
CoinbaseTxid(b) == <<"txid-coinbase", b>>
BlockHash(b) == <<"blockhash", b>>

Reward == Amt(RewardBtc, 0)
SendAmount == Amt(SendBtc, 0)
\* fees the node's wallet may settle on, in satoshis
Fees == {Amt(0, 1410), Amt(0, 10000)}

Out(v, a) == [value |-> v, address |-> a]

\* Funds the Miner wallet may hold before the run, each a confirmed
\* transaction and the indices of its outputs that belong to the wallet:
\* one output worth the payment plus a fee; two outputs of 12 BTC, the first
\* paying to a bare public key (no "address" in the node's JSON); one output
\* of 5 BTC, too little for the payment; outputs of 25 BTC and of 10000
\* satoshis, which spent together with a fee of 10000 leave output 0 minus
\* outputs 0 and 1 of the payment at exactly 0; one output of 14999 BTC,
\* about all a regtest chain can issue (150 blocks a halving, 15000 BTC).
PriorFunds ==
    { [tx |-> [txid |-> PriorTxid, vin |-> <<>>,
               vout |-> <<Out(Amt(7, 0), <<OtherAddr>>),
                          Out(Amt(SendBtc, 10000), <<MinerOldAddr>>)>>],
       mine |-> {1}],
      [tx |-> [txid |-> PriorTxid, vin |-> <<>>,
               vout |-> <<Out(Amt(12, 0), <<>>),
                          Out(Amt(3, 0), <<OtherAddr>>),
                          Out(Amt(12, 0), <<MinerOldAddr>>)>>],
       mine |-> {0, 2}],
      [tx |-> [txid |-> PriorTxid, vin |-> <<>>,
               vout |-> <<Out(Amt(5, 0), <<MinerOldAddr>>)>>],
       mine |-> {0}],
      [tx |-> [txid |-> PriorTxid, vin |-> <<>>,
               vout |-> <<Out(Amt(25, 0), <<MinerOldAddr>>),
                          Out(Amt(0, 10000), <<MinerOldAddr>>)>>],
       mine |-> {0, 1}],
      [tx |-> [txid |-> PriorTxid, vin |-> <<>>,
               vout |-> <<Out(Amt(14999, 0), <<MinerOldAddr>>)>>],
       mine |-> {0}] }

\* the coinbase transaction of block b: the reward, then the witness
\* commitment (value 0, no address); its input refers to no transaction
CoinbaseTx(b) ==
    [txid |-> CoinbaseTxid(b),
     vin |-> <<[txid |-> <<>>, vout |-> <<>>]>>,
     vout |-> <<Out(Reward, <<MinerRewardAddr>>), Out(AmtZero, <<>>)>>]

\* blocks of the run whose reward has matured at tip h
MatureBlocks(h, h0) == {b \in (h0 + 1)..h : h - b + 1 >= Maturity + 1}

Coin(t, n, v) == [txid |-> t, n |-> n, value |-> v]
PriorCoins(p) ==
    IF p = <<>> THEN {}
    ELSE {Coin(p[1].tx.txid, n, p[1].tx.vout[n + 1].value) : n \in p[1].mine}
\* what the Miner wallet can spend at tip h
Spendable(p, h, h0) ==
    PriorCoins(p) \cup {Coin(CoinbaseTxid(b), 0, Reward) : b \in MatureBlocks(h, h0)}

RECURSIVE SumCoins(_)
SumCoins(cs) ==
    IF cs = {} THEN AmtZero
    ELSE LET c == CHOOSE x \in cs : TRUE
         IN  AmtAdd(c.value, SumCoins(cs \ {c}))

\* getbalance of the Miner wallet
Balance(p, h, h0) == SumCoins(Spendable(p, h, h0))

\* The transactions sendtoaddress may build: one or two distinct spendable
\* coins as inputs, a fee, the payment output and (when anything is left) the
\* change output, placed before or after the payment as the node chooses.
Selections(cs) ==
    {<<c>> : c \in cs} \cup {<<c, d>> : <<c, d>> \in {x \in cs \X cs : x[1] # x[2]}}
SelTotal(sel) ==
    IF Len(sel) = 1 THEN sel[1].value ELSE AmtAdd(sel[1].value, sel[2].value)
PayTxs(cs, to) ==
    UNION { UNION {
        LET left == AmtSub(SelTotal(sel), AmtAdd(SendAmount, fee))
            ins == [i \in 1..Len(sel) |-> [txid |-> <<sel[i].txid>>, vout |-> <<sel[i].n>>]]
            pay == Out(SendAmount, <<to>>)
            chg == Out(left, <<MinerChangeAddr>>)
        IN  IF AmtNeg(left) THEN {}
            ELSE IF left = AmtZero
                 THEN {[txid |-> PayTxid, vin |-> ins, vout |-> <<pay>>]}
                 ELSE {[txid |-> PayTxid, vin |-> ins, vout |-> <<pay, chg>>],
                       [txid |-> PayTxid, vin |-> ins, vout |-> <<chg, pay>>]}
        : fee \in Fees } : sel \in Selections(cs) }

\* getrawtransaction id true: <<>> when the node knows no such transaction
RawTx(id) ==
    IF paytx # <<>> /\ id = PayTxid THEN paytx
    ELSE IF prior # <<>> /\ id = PriorTxid THEN <<prior[1].tx>>
    ELSE IF \E b \in (height0 + 1)..height : id = CoinbaseTxid(b)
         THEN <<CoinbaseTx(CHOOSE b \in (height0 + 1)..height : id = CoinbaseTxid(b))>>
    ELSE <<>>

\* getblock hash: <<>> when the node knows no such block
BlockOf(hash) ==
    IF \E b \in 1..height : hash = BlockHash(b)
    THEN LET b == CHOOSE x \in 1..height : hash = BlockHash(x)
         IN  <<[height |-> <<b>>, hash |-> <<BlockHash(b)>>]>>
    ELSE <<>>

-----------------------------------------------------------------------------
(* main *)

\* the ? operator: an Err returns from main at once
\* (a faulty variant: the error dropped)
TryIgnore(ok, next) == next
Try(ok, next) == IF ok THEN next ELSE "error"

\* while miner_balance <= 0.0
\* (a faulty variant: < in place of <=)
LoopContinuesLt(balance) == AmtNeg(balance.amt)
LoopContinues(balance) == F64LeZero(balance)

\* mine_blocks_to_address(&rpc, &miner_address, 1) in the loop
\* (a faulty variant: two blocks per iteration)
LoopNumBlocksTwo == 1 + 1
LoopNumBlocks == 1

\* the hashes generatetoaddress returns for n blocks on top of tip h
NewHashes(h, n) == [i \in 1..n |-> BlockHash(h + i)]

\* let blockchain_info = rpc.get_blockchain_info()?;  then the first
\* create_or_load_wallet(&rpc, "Miner") is entered
Info ==
    /\ pc = "info"
    /\ \E ok \in Answers(TRUE) :
        /\ Logged("getblockchaininfo", ok, TRUE)
        /\ pc' = Try(ok, "provMiner")
        /\ ppc' = IF pc' = "provMiner" THEN ProvEntry ELSE ppc
    /\ wallet_name' = "Miner"
    /\ attempts' = <<>>
    /\ UNCHANGED <<nodeVars, miner_address, blocks_mined, miner_balance, block_hashes,
                   trader_address, txid, confirm_block_hashes, tx_details, block_info,
                   prev_tx_details, stages, presults, regAfter, height0, file0>>

\* create_or_load_wallet(&rpc, "Miner")?;  create_or_load_wallet(&rpc, "Trader")?;
ProvReturn ==
    /\ pc \in {"provMiner", "provTrader"}
    /\ ppc \in {"ok", "err"}
    /\ presults' = Append(presults, ppc = "ok")
    /\ regAfter' = Append(regAfter, <<disk, loaded>>)
    /\ pc' = Try(ppc = "ok", IF pc = "provMiner" THEN "provTrader" ELSE "minerAddr")
    /\ stages' = IF ppc = "ok" THEN Append(stages, <<"wallet", wallet_name>>) ELSE stages
    /\ IF pc' = "provTrader"
       THEN ppc' = ProvEntry /\ wallet_name' = "Trader" /\ attempts' = <<>>
       ELSE ppc' = "idle" /\ wallet_name' = wallet_name /\ attempts' = attempts
    /\ UNCHANGED <<nodeVars, miner_address, blocks_mined, miner_balance, block_hashes,
                   trader_address, txid, confirm_block_hashes, tx_details, block_info,
                   prev_tx_details, rpcs, errLog, height0, file0>>

\* miner_rpc.get_new_address(Some("Mining Reward"), None)?; blocks_mined = 0;
\* miner_balance = 0.0; first test of the while condition
MinerAddr ==
    /\ pc = "minerAddr"
    /\ \E ok \in Answers(IsLoaded("Miner")) :
        /\ Logged("getnewaddress Miner", ok, IsLoaded("Miner"))
        /\ miner_address' = IF ok THEN MinerRewardAddr ELSE miner_address
        /\ pc' = Try(ok, IF LoopContinues(F64(AmtZero)) THEN "mine" ELSE "traderAddr")
    /\ blocks_mined' = 0
    /\ miner_balance' = F64(AmtZero)
    /\ stages' = IF pc' = "traderAddr" THEN Append(stages, <<"mined", 0>>) ELSE stages
    /\ UNCHANGED <<nodeVars, provVars, block_hashes, trader_address, txid,
                   confirm_block_hashes, tx_details, block_info, prev_tx_details,
                   attempts, presults, regAfter, height0, file0>>

\* blocks_mined += 1; mine_blocks_to_address(&rpc, &miner_address, 1)?
MineLoopBlock ==
    /\ pc = "mine"
    /\ blocks_mined < MaxBlocks
    /\ blocks_mined' = blocks_mined + 1
    /\ \E ok \in Answers(TRUE) :
        /\ Logged("generatetoaddress loop", ok, TRUE)
        /\ height' = IF ok THEN height + LoopNumBlocks ELSE height
        /\ block_hashes' = IF ok THEN NewHashes(height, LoopNumBlocks) ELSE block_hashes
        /\ pc' = Try(ok, "balance")
    /\ UNCHANGED <<disk, loaded, prior, paytx, payHeight, file, provVars, miner_address,
                   miner_balance, trader_address, txid, confirm_block_hashes, tx_details,
                   block_info, prev_tx_details, stages, attempts, presults, regAfter,
                   height0, file0>>

\* miner_balance = get_wallet_balance(&miner_rpc, "Miner")?; then the while test
GetBalance ==
    /\ pc = "balance"
    /\ \E ok \in Answers(IsLoaded("Miner")) :
        /\ Logged("getbalance", ok, IsLoaded("Miner"))
        /\ miner_balance' = IF ok THEN F64(Balance(prior, height, height0))
                            ELSE miner_balance
        /\ pc' = Try(ok, IF LoopContinues(miner_balance') THEN "mine" ELSE "traderAddr")
    /\ stages' = IF pc' = "traderAddr" THEN Append(stages, <<"mined", 0>>) ELSE stages
    /\ UNCHANGED <<nodeVars, provVars, miner_address, blocks_mined, block_hashes,
                   trader_address, txid, confirm_block_hashes, tx_details, block_info,
                   prev_tx_details, attempts, presults, regAfter, height0, file0>>

\* trader_rpc.get_new_address(Some("Received"), None)?
TraderAddrStep ==
    /\ pc = "traderAddr"
    /\ \E ok \in Answers(IsLoaded("Trader")) :
        /\ Logged("getnewaddress Trader", ok, IsLoaded("Trader"))
        /\ trader_address' = IF ok THEN TraderAddr ELSE trader_address
        /\ pc' = Try(ok, "send")
    /\ UNCHANGED <<nodeVars, provVars, miner_address, blocks_mined, miner_balance,
                   block_hashes, txid, confirm_block_hashes, tx_details, block_info,
                   prev_tx_details, stages, attempts, presults, regAfter, height0, file0>>

\* miner_rpc.send_to_address(&trader_address, send_amount, ..)?
Send ==
    /\ pc = "send"
    /\ LET txs == IF IsLoaded("Miner") /\ trader_address # EmptyStr
                  THEN PayTxs(Spendable(prior, height, height0), trader_address)
                  ELSE {}
       IN  \/ \E tx \in txs :
                /\ Logged("sendtoaddress", TRUE, TRUE)
                /\ paytx' = <<tx>>
                /\ txid' = tx.txid
                /\ pc' = "mempool"
                /\ stages' = Append(stages, <<"sent", 0>>)
           \/ /\ Logged("sendtoaddress", FALSE, txs # {})
              /\ pc' = Try(FALSE, "mempool")
              /\ UNCHANGED <<paytx, txid, stages>>
    /\ UNCHANGED <<disk, loaded, height, prior, payHeight, file, provVars, miner_address,
                   blocks_mined, miner_balance, block_hashes, trader_address,
                   confirm_block_hashes, tx_details, block_info, prev_tx_details,
                   attempts, presults, regAfter, height0, file0>>

\* get_mempool_entry(&rpc, &txid.to_string())?
Mempool ==
    /\ pc = "mempool"
    /\ LET can == paytx # <<>> /\ payHeight = 0 /\ txid = PayTxid
       IN  \E ok \in Answers(can) :
            /\ Logged("getmempoolentry", ok, can)
            /\ pc' = Try(ok, "confirm")
            /\ stages' = IF ok THEN Append(stages, <<"mempool", 0>>) ELSE stages
    /\ UNCHANGED <<nodeVars, provVars, miner_address, blocks_mined, miner_balance,
                   block_hashes, trader_address, txid, confirm_block_hashes, tx_details,
                   block_info, prev_tx_details, attempts, presults, regAfter, height0,
                   file0>>

\* let confirm_block_hashes = mine_blocks_to_address(&rpc, &miner_address, 1)?;
\* the new block takes the mempool's transaction
Confirm ==
    /\ pc = "confirm"
    /\ \E ok \in Answers(TRUE) :
        /\ Logged("generatetoaddress confirm", ok, TRUE)
        /\ height' = IF ok THEN height + 1 ELSE height
        /\ payHeight' = IF ok /\ paytx # <<>> /\ payHeight = 0 THEN height + 1
                        ELSE payHeight
        /\ confirm_block_hashes' = IF ok THEN NewHashes(height, 1)
                                   ELSE confirm_block_hashes
        /\ pc' = Try(ok, "txDetails")
        /\ stages' = IF ok THEN Append(stages, <<"confirmed", 0>>) ELSE stages
    /\ UNCHANGED <<disk, loaded, prior, paytx, file, provVars, miner_address, blocks_mined,
                   miner_balance, block_hashes, trader_address, txid, tx_details,
                   block_info, prev_tx_details, attempts, presults, regAfter, height0,
                   file0>>

\* let tx_details = get_transaction_details(&rpc, &txid.to_string())?
TxDetails ==
    /\ pc = "txDetails"
    /\ \E ok \in Answers(RawTx(txid) # <<>>) :
        /\ Logged("getrawtransaction", ok, RawTx(txid) # <<>>)
        /\ tx_details' = IF ok THEN RawTx(txid) ELSE tx_details
        /\ pc' = Try(ok, "blockInfo")
        /\ stages' = IF ok THEN Append(stages, <<"tx", 0>>) ELSE stages
    /\ UNCHANGED <<nodeVars, provVars, miner_address, blocks_mined, miner_balance,
                   block_hashes, trader_address, txid, confirm_block_hashes, block_info,
                   prev_tx_details, attempts, presults, regAfter, height0, file0>>

\* the argument of get_block_info: &confirm_block_hashes[0]
\* (a faulty variant: the hash of the loop's last block)
BlockInfoArgLoop == IF block_hashes = <<>> THEN EmptyStr ELSE block_hashes[1]
BlockInfoArg == IF confirm_block_hashes = <<>> THEN EmptyStr ELSE confirm_block_hashes[1]

\* let block_info = get_block_info(&rpc, &confirm_block_hashes[0])?
BlockInfo ==
    /\ pc = "blockInfo"
    /\ \E ok \in Answers(BlockOf(BlockInfoArg) # <<>>) :
        /\ Logged("getblock", ok, BlockOf(BlockInfoArg) # <<>>)
        /\ block_info' = IF ok THEN BlockOf(BlockInfoArg) ELSE block_info
        /\ pc' = Try(ok, "prevTx")
        /\ stages' = IF ok THEN Append(stages, <<"block", 0>>) ELSE stages
    /\ UNCHANGED <<nodeVars, provVars, miner_address, blocks_mined, miner_balance,
                   block_hashes, trader_address, txid, confirm_block_hashes, tx_details,
                   prev_tx_details, attempts, presults, regAfter, height0, file0>>

\* tx_details["vin"][0]["txid"].as_str().unwrap_or("")
InputTxid(tx) ==
    IF tx = <<>> \/ Index(tx[1].vin, 0) = <<>> THEN EmptyStr
    ELSE UnwrapOr(Index(tx[1].vin, 0)[1].txid, EmptyStr)
\* tx_details["vin"][0]["vout"].as_u64().unwrap_or(0)
InputVout(tx) ==
    IF tx = <<>> \/ Index(tx[1].vin, 0) = <<>> THEN 0
    ELSE UnwrapOr(Index(tx[1].vin, 0)[1].vout, 0)

\* let prev_tx_details = get_transaction_details(&rpc, input_txid)?
PrevTx ==
    /\ pc = "prevTx"
    /\ LET prev == RawTx(InputTxid(tx_details))
       IN  \E ok \in Answers(prev # <<>>) :
            /\ Logged("getrawtransaction prev", ok, prev # <<>>)
            /\ prev_tx_details' = IF ok THEN prev ELSE prev_tx_details
            /\ pc' = Try(ok, "write")
            /\ stages' = IF ok THEN Append(stages, <<"prevtx", 0>>) ELSE stages
    /\ UNCHANGED <<nodeVars, provVars, miner_address, blocks_mined, miner_balance,
                   block_hashes, trader_address, txid, confirm_block_hashes, tx_details,
                   block_info, attempts, presults, regAfter, height0, file0>>

-----------------------------------------------------------------------------
(* Reconciliation and the report (main, after the last RPC) *)

\* tx_details["txid"].as_str().unwrap_or("")
TxidStr(tx) == IF tx = <<>> THEN EmptyStr ELSE tx[1].txid

MinerInputAddress(tx, prev) == UnwrapOr(VoutAddress(prev, InputVout(tx)), EmptyStr)
MinerInputAmount(tx, prev) == UnwrapOr(VoutValue(prev, InputVout(tx)), F64(AmtZero))
TraderOutputAddress(tx) == UnwrapOr(VoutAddress(tx, 0), EmptyStr)
TraderOutputAmount(tx) == UnwrapOr(VoutValue(tx, 0), F64(AmtZero))
MinerChangeAddress(tx) == UnwrapOr(VoutAddress(tx, 1), EmptyStr)
\* a faulty variant: the change amount read from output 0
MinerChangeAmountFirst(tx) == UnwrapOr(VoutValue(tx, 0), F64(AmtZero))
MinerChangeAmount(tx) == UnwrapOr(VoutValue(tx, 1), F64(AmtZero))

\* let raw_fee = miner_input_amount - trader_output_amount - miner_change_amount;
\* let transaction_fees = (raw_fee * 100_000_000.0).round() / 100_000_000.0;
\* e1, e2: the errors of the two subtractions
TransactionFees(tx, prev, e1, e2) ==
    Round8(F64Sub(F64Sub(MinerInputAmount(tx, prev), TraderOutputAmount(tx), e1),
                  MinerChangeAmount(tx), e2))
\* the values transaction_fees may take, over the errors the subtractions may carry
FeeValues(tx, prev) ==
    UNION { { TransactionFees(tx, prev, e1, e2) :
                e2 \in ErrRange(F64Sub(MinerInputAmount(tx, prev),
                                      TraderOutputAmount(tx), e1),
                               MinerChangeAmount(tx)) } :
            e1 \in ErrRange(MinerInputAmount(tx, prev), TraderOutputAmount(tx)) }

\* block_info["height"].as_u64().unwrap_or(0), block_info["hash"].as_str().unwrap_or("")
BlockHeightOf(info) == IF info = <<>> THEN 0 ELSE UnwrapOr(info[1].height, 0)
BlockHashOf(info) == IF info = <<>> THEN EmptyStr ELSE UnwrapOr(info[1].hash, EmptyStr)

\* the ten writeln! calls, in their order
ReportLines(tx, prev, info, fee) ==
    << <<"str", TxidStr(tx)>>,
       <<"str", MinerInputAddress(tx, prev)>>,
       <<"f64", MinerInputAmount(tx, prev)>>,
       <<"str", TraderOutputAddress(tx)>>,
       <<"f64", TraderOutputAmount(tx)>>,
       <<"str", MinerChangeAddress(tx)>>,
       <<"f64", MinerChangeAmount(tx)>>,
       <<"f64", fee>>,
       <<"u64", BlockHeightOf(info)>>,
       <<"str", BlockHashOf(info)>> >>

\* File::create: the lines the file holds once it is opened
\* (a faulty variant: opened for appending)
CreatedAppending(old) == IF old = <<>> THEN <<>> ELSE old[1]
Created(old) == <<>>

\* What a failed writeln! may leave of line l: nothing, the whole field
\* without its newline, or (the file is written unbuffered) a part of the
\* field.
Fragments(l) ==
    {<<>>, << <<"unterminated", l>> >>}
        \cup (IF l[1] = "str" /\ l[2] = EmptyStr THEN {} ELSE {<< <<"partial", l>> >>})

\* File::create("../out.txt")? and the writeln!(..)? calls.  The open may
\* fail, and so may any write: then the lines written so far stay, and
\* perhaps a fragment of the line being written.
WriteReport ==
    /\ pc = "write"
    /\ \E fee \in FeeValues(tx_details, prev_tx_details) :
        LET lines == ReportLines(tx_details, prev_tx_details, block_info, fee)
        IN  \/ /\ file' = file
               /\ errLog' = Append(errLog, <<"File::create", rpcs, "io">>)
               /\ pc' = "error"
               /\ stages' = stages
            \/ \E k \in 0..(Len(lines) - 1) : \E frag \in Fragments(lines[k + 1]) :
               /\ file' = <<Created(file) \o SubSeq(lines, 1, k) \o frag>>
               /\ errLog' = Append(errLog, <<"writeln", rpcs, "io">>)
               /\ pc' = "error"
               /\ stages' = stages
            \/ /\ file' = <<Created(file) \o lines>>
               /\ errLog' = errLog
               /\ pc' = "done"
               /\ stages' = Append(stages, <<"report", 0>>)
    /\ UNCHANGED <<disk, loaded, height, prior, paytx, payHeight, provVars, miner_address,
                   blocks_mined, miner_balance, block_hashes, trader_address, txid,
                   confirm_block_hashes, tx_details, block_info, prev_tx_details, rpcs,
                   attempts, presults, regAfter, height0, file0>>

-----------------------------------------------------------------------------
(* The run of main against a node in any initial state *)

Init ==
    /\ \E r \in Registries : disk = r[1] /\ loaded = r[2]
    /\ height0 \in {0, MaxHeight0}
    /\ height = height0
    /\ prior \in {<<>>} \cup (IF "Miner" \in disk THEN {<<p>> : p \in PriorFunds} ELSE {})
    /\ paytx = <<>> /\ payHeight = 0
    /\ file0 \in OldFiles
    /\ file = file0
    /\ pc = "info"
    /\ ppc = "idle"
    /\ wallet_name = "Miner"
    /\ miner_address = EmptyStr /\ trader_address = EmptyStr
    /\ blocks_mined = 0 /\ miner_balance = F64(AmtZero)
    /\ block_hashes = <<>> /\ confirm_block_hashes = <<>>
    /\ txid = EmptyStr
    /\ tx_details = <<>> /\ block_info = <<>> /\ prev_tx_details = <<>>
    /\ rpcs = 0 /\ errLog = <<>> /\ stages = <<>> /\ attempts = <<>>
    /\ presults = <<>> /\ regAfter = <<>>

Next ==
    \/ Info
    \/ Provisioner
    \/ ProvReturn
    \/ MinerAddr
    \/ MineLoopBlock
    \/ GetBalance
    \/ TraderAddrStep
    \/ Send
    \/ Mempool
    \/ Confirm
    \/ TxDetails
    \/ BlockInfo
    \/ PrevTx
    \/ WriteReport

Spec == Init /\ [][Next]_vars

-----------------------------------------------------------------------------
(* Two calls of create_or_load_wallet in a row with the same name *)

HarnessReturn ==
    /\ pc = "harness"
    /\ ppc \in {"ok", "err"}
    /\ presults' = Append(presults, ppc = "ok")
    /\ regAfter' = Append(regAfter, <<disk, loaded>>)
    /\ IF Len(presults) = 0
       THEN ppc' = ProvEntry /\ attempts' = <<>>
       ELSE ppc' = "idle" /\ attempts' = attempts
    /\ UNCHANGED <<nodeVars, wallet_name, mainVars, rpcs, errLog, stages,
                   height0, file0>>

InitProv ==
    /\ \E r \in Registries : disk = r[1] /\ loaded = r[2]
    /\ height = 0 /\ height0 = 0
    /\ prior = <<>> /\ paytx = <<>> /\ payHeight = 0
    /\ file = <<>> /\ file0 = <<>>
    /\ pc = "harness"
    /\ ppc = ProvEntry
    /\ wallet_name \in Names
    /\ miner_address = EmptyStr /\ trader_address = EmptyStr
    /\ blocks_mined = 0 /\ miner_balance = F64(AmtZero)
    /\ block_hashes = <<>> /\ confirm_block_hashes = <<>>
    /\ txid = EmptyStr
    /\ tx_details = <<>> /\ block_info = <<>> /\ prev_tx_details = <<>>
    /\ rpcs = 0 /\ errLog = <<>> /\ stages = <<>> /\ attempts = <<>>
    /\ presults = <<>> /\ regAfter = <<>>

NextProv == Provisioner \/ HarnessReturn

SpecProv == InitProv /\ [][NextProv]_vars

-----------------------------------------------------------------------------
(* Properties *)

HasStage(s) == \E i \in 1..Len(stages) : stages[i][1] = s
LoopExited == HasStage("mined")
\* line i of the report file, counted from 1
Line(i) == file[1][i]
\* the payment transaction as the node holds it, and the amounts the
\* reconciliation is about: the output the first input spends, output 0
\* and output 1 (0 when absent)
PayVout == paytx[1].vout
FirstInput == paytx[1].vin[1]
SpentAmount == RawTx(FirstInput.txid[1])[1].vout[FirstInput.vout[1] + 1].value
PayeeAmount == PayVout[1].value
ChangeAmount == IF Len(PayVout) >= 2 THEN PayVout[2].value ELSE AmtZero

\* C1: whenever the mining loop has exited normally, the balance it read
\* last from the Miner wallet is strictly greater than 0.
C1_ExitBalancePositive ==
    LoopExited => AmtPos(miner_balance.amt) /\ miner_balance.err = 0

\* the loop has exited after more than one iteration
C1_Witness == LoopExited /\ blocks_mined >= 2 /\ AmtPos(miner_balance.amt)

\* C2 as stated: whenever the loop has exited (so the provisioner succeeded
\* for "Miner"), at least Maturity + 1 blocks were mined.
C2_AlwaysMaturityPlusOne == LoopExited => blocks_mined >= Maturity + 1

\* C2 amended: when the Miner wallet held no funds before the run, the balance
\* read after each of the first Maturity blocks is 0, the balance read after
\* block Maturity + 1 is positive, and the loop exits with
\* blocks_mined = Maturity + 1.
C2_FreshWalletMaturityPlusOne ==
    prior = <<>> =>
        /\ (pc \in {"mine", "traderAddr"} /\ blocks_mined >= 1 /\ blocks_mined <= Maturity)
               => miner_balance.amt = AmtZero /\ pc = "mine"
        /\ (pc \in {"mine", "traderAddr"} /\ blocks_mined >= Maturity + 1)
               => AmtPos(miner_balance.amt) /\ pc = "traderAddr"
        /\ LoopExited => blocks_mined = Maturity + 1

\* a wallet without earlier funds has left the loop
C2_Witness == prior = <<>> /\ LoopExited /\ blocks_mined = Maturity + 1

\* C3: the fee in the report is exactly (to the satoshi) the amount of the
\* output spent by the first input, minus output 0, minus output 1 (as a
\* number: a fee of zero may be written 0 or -0).
C3_FeeExact ==
    pc = "done" =>
        /\ Line(8)[1] = "f64"
        /\ Line(8)[2].amt = AmtSub(AmtSub(SpentAmount, PayeeAmount), ChangeAmount)
        /\ Line(8)[2].err = 0
        /\ Line(8)[2].negz => Line(8)[2].amt = AmtZero

\* a report whose fee is 1410 satoshis, with a change output
C3_Witness ==
    /\ pc = "done"
    /\ Len(PayVout) = 2
    /\ Line(8) = <<"f64", F64(Amt(0, 1410))>>

\* C4: a run that finishes the report without an I/O error leaves exactly ten
\* lines, in the order txid, input address, input amount, output address,
\* output amount, change address, change amount, fee, block height, block
\* hash, and nothing of the file's earlier content, whichever fields were
\* defaulted.
C4_TenLines ==
    pc = "done" =>
        /\ file # <<>>
        /\ Len(file[1]) = 10
        /\ [i \in 1..10 |-> Line(i)[1]] =
               <<"str", "str", "f64", "str", "f64", "str", "f64", "f64", "u64", "str">>
        /\ Line(1)[2] = tx_details[1].txid
        /\ Line(2)[2] = (IF prev_tx_details[1].vout[FirstInput.vout[1] + 1].address = <<>>
                         THEN EmptyStr
                         ELSE prev_tx_details[1].vout[FirstInput.vout[1] + 1].address[1])
        /\ Line(3)[2].amt = prev_tx_details[1].vout[FirstInput.vout[1] + 1].value
        /\ Line(4)[2] = tx_details[1].vout[1].address[1]
        /\ Line(5)[2].amt = tx_details[1].vout[1].value
        /\ Line(6)[2] = (IF Len(tx_details[1].vout) >= 2
                         THEN tx_details[1].vout[2].address[1] ELSE EmptyStr)
        /\ Line(7)[2].amt = (IF Len(tx_details[1].vout) >= 2
                             THEN tx_details[1].vout[2].value ELSE AmtZero)
        /\ Line(9)[2] = block_info[1].height[1]
        /\ Line(10)[2] = block_info[1].hash[1]

\* a finished report over an older file, with a defaulted field (the input
\* address)
C4_Witness ==
    /\ pc = "done"
    /\ file0 # <<>>
    /\ Line(2) = <<"str", EmptyStr>>

\* Every error answer so far followed from the registry's state.
NoFault == \A i \in 1..Len(errLog) : errLog[i][3] = "state"
Count(seq, w) == Cardinality({i \in 1..Len(seq) : seq[i] = w})

\* C5: with a node that answers as its registry state demands, two calls in
\* a row with one name both succeed, the wallet is loaded exactly once, and
\* the registry after the second call is the registry after the first.
C5_Idempotent ==
    NoFault =>
        /\ \A i \in 1..Len(presults) : presults[i]
        /\ \A i \in 1..Len(regAfter) :
               /\ Count(regAfter[i][2], wallet_name) = 1
               /\ wallet_name \in regAfter[i][1]
        /\ Len(regAfter) = 2 => regAfter[2] = regAfter[1]

\* both calls have returned
C5_Witness == NoFault /\ Len(presults) = 2 /\ presults[2] /\ Len(attempts) >= 2

\* C7: the calls of one create_or_load_wallet are unload, load, create, load
\* in that order, each after the first load only when the one before failed;
\* success is returned right after the first attempt that succeeds, and an
\* error exactly when load, create and load all failed.
C7_Fallback ==
    LET n == Len(attempts)
        failed(i) == ~attempts[i][2]
    IN  /\ n <= 4
        /\ \A i \in 1..n : attempts[i][1] = <<"unload", "load", "create", "reload">>[i]
        /\ \A i \in 3..n : failed(i - 1)
        /\ Cardinality({i \in 1..n : attempts[i][1] \in {"load", "reload"}}) <= 2
        /\ Cardinality({i \in 1..n : attempts[i][1] = "create"}) <= 1
        /\ ppc = "unload" => n = 0
        /\ ppc = "load" => n = 1
        /\ ppc = "create" => n = 2 /\ failed(2)
        /\ ppc = "reload" => n = 3 /\ failed(3)
        /\ ppc = "ok" => n >= 2 /\ ~failed(n)
        /\ ppc = "err" => n = 4 /\ failed(2) /\ failed(3) /\ failed(4)
        /\ (n = 4 /\ failed(4)) =>
               \/ ppc = "err"
               \/ ppc = "idle" /\ presults # <<>> /\ ~presults[Len(presults)]
        /\ (n >= 2 /\ ~failed(n)) =>
               \/ ppc = "ok"
               \/ ppc \in {"idle", "unload"} /\ presults # <<>> /\ presults[Len(presults)]

\* a call that succeeded at its third attempt, and one that failed
C7_Witness ==
    /\ ppc = "ok"
    /\ Len(attempts) = 4
    /\ presults = <<FALSE>>

\* the order of the pipeline's stages
StageOrder ==
    << <<"wallet", "Miner">>, <<"wallet", "Trader">>, <<"mined", 0>>, <<"sent", 0>>,
       <<"mempool", 0>>, <<"confirmed", 0>>, <<"tx", 0>>, <<"block", 0>>,
       <<"prevtx", 0>>, <<"report", 0>> >>

\* C8: the stages happen in the order wallets, mining loop, send, mempool
\* lookup, one confirmation block, fetches, report; the confirmation block is
\* mined only after the mempool lookup succeeded, and the report's height and
\* hash are those of the block mined after the send, the one holding the
\* payment, not of a block of the mining loop.
C8_StageOrder ==
    /\ Len(stages) <= Len(StageOrder)
    /\ stages = SubSeq(StageOrder, 1, Len(stages))
    /\ pc = "done" => stages = StageOrder
    /\ payHeight # 0 => HasStage("mempool") /\ HasStage("sent")
    /\ HasStage("confirmed") =>
           /\ height = height0 + blocks_mined + 1
           /\ payHeight = height
           /\ confirm_block_hashes = <<BlockHash(payHeight)>>
    /\ pc = "done" =>
           /\ Line(9) = <<"u64", payHeight>>
           /\ Line(10) = <<"str", BlockHash(payHeight)>>
           /\ payHeight > height0 + blocks_mined

\* a finished run whose loop mined several blocks
C8_Witness == pc = "done" /\ blocks_mined = Maturity + 1 /\ Line(9) = <<"u64", height>>

\* error answers that the program does not absorb: all but those of the
\* unload and of the first load and the create of create_or_load_wallet
Absorbed == {"unload", "load", "create"}
RpcErrors == {i \in 1..Len(errLog) : errLog[i][3] # "io" /\ errLog[i][1] \notin Absorbed}

\* C9: an RPC failure that is not absorbed ends the run in error at that
\* call: it is the last RPC issued and the last error, and the report file is
\* as it was before the run.
C9_FatalNoRetry ==
    \A i \in RpcErrors :
        /\ pc = "error" \/ (errLog[i][1] = "reload" /\ ppc = "err")
        /\ rpcs = errLog[i][2]
        /\ i = Len(errLog)
        /\ file = file0
        /\ errLog[i][1] = "sendtoaddress" => ~HasStage("mempool") /\ ~HasStage("confirmed")

\* a rejected send over an existing report file
C9_Witness ==
    /\ pc = "error"
    /\ errLog # <<>>
    /\ errLog[Len(errLog)][1] = "sendtoaddress"
    /\ errLog[Len(errLog)][3] = "state"
    /\ file0 # <<>>

\* C6: with a single output the reconciliation goes through: the report has
\* change address "" and change amount 0, and its fee is the input amount
\* minus the payee amount; the run can only fail after it on an I/O error.
C6_NoChange ==
    /\ (pc = "done" /\ Len(PayVout) = 1) =>
           /\ Line(6) = <<"str", EmptyStr>>
           /\ Line(7) = <<"f64", F64(AmtZero)>>
           /\ Line(8) = <<"f64", F64(AmtSub(SpentAmount, PayeeAmount))>>
    /\ (pc = "error" /\ HasStage("prevtx")) => errLog[Len(errLog)][3] = "io"

\* a finished report of a payment without change
C6_Witness == pc = "done" /\ Len(PayVout) = 1 /\ Line(8) = <<"f64", F64(Amt(0, 10000))>>

\* C10: wherever the node puts the change output, line 4 is the Trader
\* address, line 5 the amount sent, and lines 6 and 7 the Miner's change
\* output.
C10_PayeeAndChange ==
    pc = "done" =>
        /\ Line(4) = <<"str", trader_address>>
        /\ Line(5) = <<"f64", F64(SendAmount)>>
        /\ \A i \in 1..Len(PayVout) :
               PayVout[i].address = <<MinerChangeAddr>> =>
                   /\ Line(6) = <<"str", MinerChangeAddr>>
                   /\ Line(7) = <<"f64", F64(PayVout[i].value)>>

=============================================================================
